---- MODULE Spec2Model ----
(***************************************************************************)
(* Model of the backtesting core of stocks_backtesting:                    *)
(*   src/src/backtesting/portfolio.py  (Portfolio: the ledger)             *)
(*   src/src/backtesting/engine.py     (BacktestEngine, BacktestResults)   *)
(*   src/src/metrics/performance.py    (PerformanceMetrics)                *)
(*   src/src/strategies/*.py           (the signal sources)                *)
(*                                                                         *)
(* Money is a Python float.  A float is modelled as a binary floating      *)
(* point number m * 2^e with a significand of Prec bits and round to       *)
(* nearest, ties to even, on every arithmetic operation (IEEE 754 double   *)
(* with the significand narrowed from 53 to Prec bits; the exponent is     *)
(* not bounded, so there is no overflow or underflow).                     *)
(***************************************************************************)
EXTENDS Integers, Sequences, FiniteSets, TLC

\* ---------------------------------------------------------------- bounds
Prec == 12          \* bits of the significand of a modelled float
MaxCalls == 3       \* Portfolio API calls in one behaviour
MaxBars == 4        \* bars in the price data handed to run_backtest
MaxRuns == 2        \* run_backtest calls on one BacktestEngine
MaxValues == 4      \* snapshots in a value history handed to the metrics
MaxPrices == 4      \* prices in a series handed to a strategy's method

\* ------------------------------------------------------- float arithmetic
Abs(n) == IF n < 0 THEN 0 - n ELSE n
Sign(n) == IF n < 0 THEN 0 - 1 ELSE IF n = 0 THEN 0 ELSE 1
Max2(a, b) == IF a >= b THEN a ELSE b

RECURSIVE Blen(_)
\* number of bits of the natural number n
Blen(n) == IF n = 0 THEN 0 ELSE 1 + Blen(n \div 2)

RECURSIVE Norm(_, _)
\* canonical representation of m * 2^e: m odd, or m = 0 and e = 0
Norm(m, e) ==
    IF m = 0 THEN [m |-> 0, e |-> 0]
    ELSE IF m % 2 = 0 THEN Norm(m \div 2, e + 1)
    ELSE [m |-> m, e |-> e]

\* (n / d) * 2^e for naturals n, d > 0, rounded to Prec bits, ties to even
RoundRat(n, d, e) ==
    LET q == n \div d
        r == n % d
        s == Blen(q) - Prec
    IN  IF s <= 0 THEN Norm(q, e)
        ELSE LET keep == q \div (2^s)
                 low  == q % (2^s)
                 half == 2^(s - 1)
                 up   == \/ low > half
                         \/ low = half /\ r > 0
                         \/ low = half /\ r = 0 /\ keep % 2 = 1
             IN  Norm(IF up THEN keep + 1 ELSE keep, e + s)

FNeg(a) == [m |-> 0 - a.m, e |-> a.e]
Signed(sgn, a) == IF sgn < 0 THEN FNeg(a) ELSE a

\* float(n) for a Python int n
Fl(n) == Signed(Sign(n), RoundRat(Abs(n), 1, 0))
Zero == Fl(0)

\* position of the leading bit of a non-zero float
Top(a) == a.e + Blen(Abs(a.m))

\* a + b of two float values
AddValues(a, b) ==
    IF a.m = 0 THEN b
    ELSE IF b.m = 0 THEN a
    ELSE LET hi == IF Top(a) >= Top(b) THEN a ELSE b
             lo == IF Top(a) >= Top(b) THEN b ELSE a
         IN  \* lo is less than a quarter of hi's last place: hi is nearest
             IF Top(lo) < Top(hi) - Prec - 2 THEN hi
             ELSE LET e0 == IF a.e <= b.e THEN a.e ELSE b.e
                      s  == a.m * 2^(a.e - e0) + b.m * 2^(b.e - e0)
                  IN  Signed(Sign(s), RoundRat(Abs(s), 1, e0))

\* a * b of two float values
MulValues(a, b) ==
    Signed(Sign(a.m) * Sign(b.m), RoundRat(Abs(a.m) * Abs(b.m), 1, a.e + b.e))

\* a / b of two float values, b # 0 (Python raises ZeroDivisionError for 0)
DivValues(a, b) ==
    IF a.m = 0 THEN Zero
    ELSE LET na == Abs(a.m)
             nb == Abs(b.m)
             k  == Max2(0, Prec + 2 + Blen(nb) - Blen(na))
         IN  Signed(Sign(a.m) * Sign(b.m),
                    RoundRat(na * 2^k, nb, a.e - b.e - k))

\* the operators on expressions: each operand is evaluated once
FAdd(x, y) == CHOOSE r \in {AddValues(a, b) : a \in {x}, b \in {y}} : TRUE
FSub(x, y) == CHOOSE r \in {AddValues(a, FNeg(b)) : a \in {x}, b \in {y}} : TRUE
FMul(x, y) == CHOOSE r \in {MulValues(a, b) : a \in {x}, b \in {y}} : TRUE
FDiv(x, y) == CHOOSE r \in {DivValues(a, b) : a \in {x}, b \in {y}} : TRUE

\* rounding keeps the sign of the exact result, so a comparison can be
\* read off the rounded difference
FLe(a, b) == FSub(a, b).m <= 0
FLt(a, b) == FSub(a, b).m < 0
FGt(a, b) == FLt(b, a)
FGe(a, b) == FLe(b, a)
FMax(x, y) == CHOOSE r \in {IF FGe(a, b) THEN a ELSE b : a \in {x}, b \in {y}} : TRUE

\* int(x): truncation toward zero
FInt(a) ==
    IF a.e >= 0 THEN a.m * 2^(a.e)
    ELSE IF 0 - a.e >= Blen(Abs(a.m)) THEN 0
    ELSE Sign(a.m) * (Abs(a.m) \div 2^(0 - a.e))

\* the float nearest to the decimal literal n / d
Lit(n, d) == FDiv(Fl(n), Fl(d))

\* ------------------------------------------------------------ parameters
Symbols == {"AAPL", "SYMBOL"}

\* (trading_costs_config, tax_config) pairs handed to Portfolio(...)
FixedCost10 ==
    [cost_type |-> "fixed", fixed_cost_per_trade |-> Fl(10),
     percentage_cost_per_trade |-> Lit(2, 1000),
     apply_to_buy |-> TRUE, apply_to_sell |-> TRUE]
Tax25 ==
    [tax_rate |-> Lit(25, 100), apply_immediately |-> TRUE,
     tax_free_threshold |-> Fl(0)]
Configs ==
    { <<FixedCost10, Tax25>>,
      <<[FixedCost10 EXCEPT !.fixed_cost_per_trade = Fl(0)], Tax25>>,
      <<[FixedCost10 EXCEPT !.cost_type = "percentage"],
        [Tax25 EXCEPT !.tax_free_threshold = Fl(100)]>>,
      <<[FixedCost10 EXCEPT !.apply_to_buy = FALSE],
        [Tax25 EXCEPT !.apply_immediately = FALSE]>> }

InitialCapitals == {Fl(1010)}

\* arguments of well-formed calls: positive share counts and prices
ValidOrders ==
    { <<"AAPL", 1, Fl(1)>>, <<"AAPL", 1, Fl(100)>>, <<"AAPL", 3, Fl(100)>>,
      <<"AAPL", 3, Fl(150)>>, <<"AAPL", 10, Fl(100)>>,
      <<"AAPL", 10, Fl(150)>>, <<"SYMBOL", 3, Fl(100)>> }
\* arguments Python accepts as well: zero and negative numbers
AnyOrders ==
    ({"AAPL"} \X ((0 - 1)..1) \X {Fl(0 - 1), Fl(0), Fl(100)})
        \cup {<<"SYMBOL", 0, Fl(100)>>}

\* ------------------------------------------------------------- Portfolio
\* dict.get(key, default)
Get(d, k, default) == IF k \in DOMAIN d THEN d[k] ELSE default
\* d[key] = value
Put(d, k, v) == [x \in (DOMAIN d) \cup {k} |-> IF x = k THEN v ELSE d[x]]

\* Portfolio.__init__
NewPortfolio(initial_capital, trading_costs_config, tax_config) ==
    [ initial_capital |-> initial_capital,
      cash |-> initial_capital,
      trading_costs |-> trading_costs_config,
      tax_config |-> tax_config,
      positions |-> <<>>,
      portfolio_value |-> initial_capital,
      trades |-> <<>>,
      portfolio_history |-> <<>>,
      total_trades |-> 0,
      winning_trades |-> 0,
      losing_trades |-> 0,
      total_trading_costs_paid |-> Zero,
      total_taxes_paid |-> Zero,
      position_cost_basis |-> <<>>,
      position_shares |-> <<>> ]

get_position_value(P, symbol, current_price) ==
    FMul(Fl(Get(P.positions, symbol, 0)), current_price)

RECURSIVE SumValues(_, _, _)
\* sum(...) of get_total_value: 0 + v1 + v2 + ... over the price map
SumValues(P, current_prices, todo) ==
    IF todo = {} THEN Zero
    ELSE LET s == CHOOSE x \in todo : TRUE
         IN  FAdd(SumValues(P, current_prices, todo \ {s}),
                  get_position_value(P, s, current_prices[s]))

get_total_value(P, current_prices) ==
    FAdd(P.cash, SumValues(P, current_prices, DOMAIN current_prices))

calculate_trading_cost(P, trade_value, action) ==
    IF action = "BUY" /\ ~P.trading_costs.apply_to_buy THEN Zero
    ELSE IF action = "SELL" /\ ~P.trading_costs.apply_to_sell THEN Zero
    ELSE IF P.trading_costs.cost_type = "fixed"
         THEN P.trading_costs.fixed_cost_per_trade
    ELSE IF P.trading_costs.cost_type = "percentage"
         THEN FMul(trade_value, P.trading_costs.percentage_cost_per_trade)
    ELSE Zero

\* a tax that is refunded on what falls short of the threshold
calculate_tax_with_refund(P, profit) ==
    IF ~P.tax_config.apply_immediately THEN Zero
    ELSE FMul(FSub(profit, P.tax_config.tax_free_threshold),
              P.tax_config.tax_rate)

calculate_tax(P, profit) ==
    IF ~P.tax_config.apply_immediately THEN Zero
    ELSE IF FLe(profit, P.tax_config.tax_free_threshold) THEN Zero
    ELSE FMax(Zero, FMul(FSub(profit, P.tax_config.tax_free_threshold),
                         P.tax_config.tax_rate))

can_buy(P, symbol, shares, price) ==
    LET trade_value  == FMul(Fl(shares), price)
        trading_cost == calculate_trading_cost(P, trade_value, "BUY")
        total_cost   == FAdd(trade_value, trading_cost)
    IN  FLe(total_cost, P.cash)

can_sell(P, symbol, shares) == Get(P.positions, symbol, 0) >= shares

get_position_size(P, symbol) == Get(P.positions, symbol, 0)

\* a buy that leaves the trading cost out of the cost basis
cost_basis_without_entry_cost(basis0, trade_value, trading_cost) ==
    FAdd(basis0, trade_value)

\* Portfolio.buy, line 135: the cost basis after a buy
cost_basis_after_buy(basis0, trade_value, trading_cost) ==
    FAdd(basis0, FAdd(trade_value, trading_cost))

\* Portfolio.buy: the returned value and the Portfolio after the call
buy(P, symbol, shares, price, timestamp) ==
    IF ~can_buy(P, symbol, shares, price) THEN [ret |-> "False", P |-> P]
    ELSE
    LET trade_value  == FMul(Fl(shares), price)
        trading_cost == calculate_trading_cost(P, trade_value, "BUY")
        total_cost   == FAdd(trade_value, trading_cost)
        cash1        == FSub(P.cash, total_cost)
        positions1   == Put(P.positions, symbol,
                            Get(P.positions, symbol, 0) + shares)
        basis0       == Get(P.position_cost_basis, symbol, Zero)
        shares0      == Get(P.position_shares, symbol, 0)
        P1 == [P EXCEPT !.cash = cash1, !.positions = positions1]
        trade == [ timestamp |-> timestamp, symbol |-> symbol,
                   action |-> "BUY", shares |-> shares, price |-> price,
                   trade_value |-> trade_value, commission |-> trading_cost,
                   trading_cost |-> trading_cost, total_cost |-> total_cost,
                   cash_after |-> cash1,
                   portfolio_value |->
                       get_total_value(P1, [s \in {symbol} |-> price]) ]
    IN  [ret |-> "True",
         P |-> [P1 EXCEPT
                  !.position_cost_basis =
                      Put(@, symbol,
                          cost_basis_after_buy(basis0, trade_value,
                                               trading_cost)),
                  !.position_shares = Put(@, symbol, shares0 + shares),
                  !.total_trading_costs_paid = FAdd(@, trading_cost),
                  !.trades = Append(@, trade),
                  !.total_trades = @ + 1]]

\* a sale that averages the cost basis over the shares sold
cost_basis_per_share_sold(P, symbol, shares) ==
    LET avg_cost_per_share ==
            FDiv(P.position_cost_basis[symbol], Fl(shares))
    IN  FMul(Fl(shares), avg_cost_per_share)

\* Portfolio.sell, lines 185-186: the share of the cost basis a sale consumes
cost_basis_consumed(P, symbol, shares) ==
    LET avg_cost_per_share ==
            FDiv(P.position_cost_basis[symbol], Fl(P.position_shares[symbol]))
    IN  FMul(Fl(shares), avg_cost_per_share)

\* Portfolio.sell: the returned value (or the exception raised) and the
\* Portfolio after the call
sell(P, symbol, shares, price, timestamp) ==
    IF ~can_sell(P, symbol, shares) THEN [ret |-> "False", P |-> P]
    ELSE
    LET trade_value    == FMul(Fl(shares), price)
        trading_cost   == calculate_trading_cost(P, trade_value, "SELL")
        gross_proceeds == FSub(trade_value, trading_cost)
        has_basis == /\ symbol \in DOMAIN P.position_cost_basis
                     /\ P.position_shares[symbol] > 0
        cost_basis_for_sale == cost_basis_consumed(P, symbol, shares)
        profit     == IF has_basis
                      THEN FSub(gross_proceeds, cost_basis_for_sale)
                      ELSE Zero
        tax_amount == IF has_basis THEN calculate_tax(P, profit) ELSE Zero
        net_proceeds == IF has_basis THEN FSub(gross_proceeds, tax_amount)
                        ELSE gross_proceeds
        \* lines 194-201: cost basis, recorded shares, win / loss counters
        P1 == IF has_basis
              THEN [P EXCEPT
                      !.position_cost_basis[symbol] =
                          FSub(@, cost_basis_for_sale),
                      !.position_shares[symbol] = @ - shares,
                      !.winning_trades =
                          IF FGt(profit, Zero) THEN @ + 1 ELSE @,
                      !.losing_trades =
                          IF FGt(profit, Zero) THEN @ ELSE @ + 1]
              ELSE P
        \* line 210
        P2 == [P1 EXCEPT !.cash = FAdd(@, net_proceeds)]
    IN  \* line 211: self.positions[symbol] -= shares
        IF symbol \notin DOMAIN P.positions
        THEN [ret |-> "KeyError", P |-> P2]
        ELSE
        LET P3 == [P2 EXCEPT !.positions[symbol] = @ - shares]
            trade == [ timestamp |-> timestamp, symbol |-> symbol,
                       action |-> "SELL", shares |-> shares, price |-> price,
                       trade_value |-> trade_value,
                       commission |-> trading_cost,
                       trading_cost |-> trading_cost,
                       gross_proceeds |-> gross_proceeds,
                       profit |-> profit, tax_paid |-> tax_amount,
                       net_proceeds |-> net_proceeds,
                       cash_after |-> P3.cash,
                       portfolio_value |->
                           get_total_value(P3, [s \in {symbol} |-> price]) ]
        IN  [ret |-> "True",
             P |-> [P3 EXCEPT
                      !.total_trading_costs_paid = FAdd(@, trading_cost),
                      !.total_taxes_paid = FAdd(@, tax_amount),
                      !.trades = Append(@, trade),
                      !.total_trades = @ + 1]]

\* a mark-to-market that taxes the gain over the initial capital
update_taxing_unrealized_gains(P, current_prices, timestamp) ==
    LET value == get_total_value(P, current_prices)
        tax   == calculate_tax(P, FSub(value, P.initial_capital))
        portfolio_snapshot ==
            [ timestamp |-> timestamp, cash |-> P.cash,
              positions |-> P.positions, portfolio_value |-> value,
              total_trades |-> P.total_trades,
              total_trading_costs_paid |-> P.total_trading_costs_paid,
              total_taxes_paid |-> P.total_taxes_paid ]
    IN  [P EXCEPT !.portfolio_value = value,
                  !.cash = FSub(@, tax),
                  !.total_taxes_paid = FAdd(@, tax),
                  !.portfolio_history = Append(@, portfolio_snapshot)]

update_portfolio_value(P, current_prices, timestamp) ==
    LET value == get_total_value(P, current_prices)
        portfolio_snapshot ==
            [ timestamp |-> timestamp, cash |-> P.cash,
              positions |-> P.positions, portfolio_value |-> value,
              total_trades |-> P.total_trades,
              total_trading_costs_paid |-> P.total_trading_costs_paid,
              total_taxes_paid |-> P.total_taxes_paid ]
    IN  [P EXCEPT !.portfolio_value = value,
                  !.portfolio_history = Append(@, portfolio_snapshot)]

\* a reset that keeps the cost basis and the tax total
reset_keeping_cost_basis(P) ==
    [P EXCEPT !.cash = P.initial_capital,
              !.positions = <<>>,
              !.portfolio_value = P.initial_capital,
              !.trades = <<>>,
              !.portfolio_history = <<>>,
              !.total_trades = 0,
              !.winning_trades = 0,
              !.losing_trades = 0,
              !.total_trading_costs_paid = Zero,
              !.position_shares = <<>>]

reset(P) ==
    [P EXCEPT !.cash = P.initial_capital,
              !.positions = <<>>,
              !.portfolio_value = P.initial_capital,
              !.trades = <<>>,
              !.portfolio_history = <<>>,
              !.total_trades = 0,
              !.winning_trades = 0,
              !.losing_trades = 0,
              !.total_trading_costs_paid = Zero,
              !.total_taxes_paid = Zero,
              !.position_cost_basis = <<>>,
              !.position_shares = <<>>]

\* ------------------------------------------------------------ strategies
Signals == {"BUY", "SELL", "HOLD"}

\* BuyAndHoldStrategy.__init__
NewBuyAndHold(symbol) ==
    [kind |-> "BuyAndHold", symbol |-> symbol, bought |-> FALSE,
     initialized |-> FALSE, data |-> <<>>]

\* MovingAverageStrategy.__init__, for short_window < long_window
NewMovingAverage(short_window, long_window, symbol) ==
    [kind |-> "MovingAverage", symbol |-> symbol,
     short_window |-> short_window, long_window |-> long_window,
     initialized |-> FALSE, data |-> <<>>]

\* a user-defined BaseStrategy subclass: generate_signals is abstract, and
\* an implementation may answer any signal for its symbol at any bar
NewCustom(symbol) ==
    [kind |-> "Custom", symbol |-> symbol, initialized |-> FALSE,
     data |-> <<>>]

\* the strategies the engine is run with
Strategies ==
    {NewBuyAndHold(s) : s \in Symbols}
        \cup {NewMovingAverage(1, 2, s) : s \in Symbols}

\* BaseStrategy.initialize
initialize(S, data) == [S EXCEPT !.data = data, !.initialized = TRUE]

\* BuyAndHoldStrategy.generate_signals: the signal and the strategy after
BuyAndHold_generate_signals(S, data) ==
    IF ~S.bought /\ Len(data) > 0
    THEN [signal |-> "BUY", S |-> [S EXCEPT !.bought = TRUE]]
    ELSE [signal |-> "HOLD", S |-> S]

RECURSIVE SumCloses(_, _, _)
\* the sum of the closes of bars lo..hi, added in their order
SumCloses(data, lo, hi) ==
    IF lo > hi THEN Zero
    ELSE FAdd(SumCloses(data, lo, hi - 1), data[hi].close)

\* data['close'].rolling(window).mean() at bar k (1-based), k >= window
RollingMean(data, window, k) ==
    FDiv(SumCloses(data, k - window + 1, k), Fl(window))

\* generate_signals that needs the short average strictly below (above) the
\* long one at the previous bar
MovingAverage_strict_crossover(S, data) ==
    IF Len(data) < S.long_window + 1 \/ Len(data) - 1 < S.short_window
    THEN [signal |-> "HOLD", S |-> S]
    ELSE
    LET n             == Len(data)
        current_short == RollingMean(data, S.short_window, n)
        current_long  == RollingMean(data, S.long_window, n)
        prev_short    == RollingMean(data, S.short_window, n - 1)
        prev_long     == RollingMean(data, S.long_window, n - 1)
    IN  IF FLt(prev_short, prev_long) /\ FGt(current_short, current_long)
        THEN [signal |-> "BUY", S |-> S]
        ELSE IF FGt(prev_short, prev_long) /\ FLt(current_short, current_long)
        THEN [signal |-> "SELL", S |-> S]
        ELSE [signal |-> "HOLD", S |-> S]

\* MovingAverageStrategy.generate_signals
MovingAverage_generate_signals(S, data) ==
    IF Len(data) < S.long_window + 1
    THEN [signal |-> "HOLD", S |-> S]
    ELSE IF Len(data) - 1 < S.short_window
    THEN \* prev_short is NaN (no full short window): no comparison holds
         [signal |-> "HOLD", S |-> S]
    ELSE
    LET n             == Len(data)
        current_short == RollingMean(data, S.short_window, n)
        current_long  == RollingMean(data, S.long_window, n)
        prev_short    == RollingMean(data, S.short_window, n - 1)
        prev_long     == RollingMean(data, S.long_window, n - 1)
    IN  IF FLe(prev_short, prev_long) /\ FGt(current_short, current_long)
        THEN [signal |-> "BUY", S |-> S]
        ELSE IF FGe(prev_short, prev_long) /\ FLt(current_short, current_long)
        THEN [signal |-> "SELL", S |-> S]
        ELSE [signal |-> "HOLD", S |-> S]

\* strategy.generate_signals(data): the signal for the strategy's symbol
\* and the strategy object after the call
generate_signals(S, data) ==
    IF S.kind = "BuyAndHold" THEN BuyAndHold_generate_signals(S, data)
    ELSE MovingAverage_generate_signals(S, data)

\* what a call of strategy.generate_signals(data) can give
signal_outcomes(S, data) ==
    IF S.kind = "Custom" THEN {[signal |-> sg, S |-> S] : sg \in Signals}
    ELSE {generate_signals(S, data)}

\* the closing prices of the price data
Closes == {Fl(100), Fl(150)}

\* ------------------------------------ strategy objects and their parameters
\* window and period arguments, RSI threshold arguments
Windows == {1, 2, 3}
Periods == {2, 3}
Thresholds == {0 - 10, 30, 70, 110}

\* the validation of MovingAverageStrategy.__init__ and set_parameters
MovingAverage_invalid(short_window, long_window) ==
    short_window >= long_window

\* a validation of the order of the thresholds alone
RSI_invalid_order_only(oversold_threshold, overbought_threshold) ==
    oversold_threshold >= overbought_threshold

\* the validation of RSIStrategy.__init__ and set_parameters
RSI_invalid(oversold_threshold, overbought_threshold) ==
    \/ oversold_threshold >= overbought_threshold
    \/ ~(0 <= oversold_threshold /\ oversold_threshold <= 100)
    \/ ~(0 <= overbought_threshold /\ overbought_threshold <= 100)

\* the validation of MACDStrategy.__init__ and set_parameters
MACD_invalid(fast_period, slow_period) == fast_period >= slow_period

\* RSIStrategy.__init__: the attributes assigned before the validation
NewRSI(period, oversold_threshold, overbought_threshold, symbol) ==
    [kind |-> "RSI", symbol |-> symbol, period |-> period,
     oversold_threshold |-> oversold_threshold,
     overbought_threshold |-> overbought_threshold,
     initialized |-> FALSE, data |-> <<>>]

\* MACDStrategy.__init__: the attributes assigned before the validation
NewMACD(fast_period, slow_period, signal_period, symbol) ==
    [kind |-> "MACD", symbol |-> symbol, fast_period |-> fast_period,
     slow_period |-> slow_period, signal_period |-> signal_period,
     initialized |-> FALSE, data |-> <<>>]

\* the constructor calls made: the class and its keyword arguments
ConstructorArgs ==
    {[cls |-> "BuyAndHold", symbol |-> s] : s \in Symbols}
        \cup {[cls |-> "MovingAverage", short_window |-> a,
               long_window |-> b, symbol |-> s] :
                 a \in Windows, b \in Windows, s \in Symbols}
        \cup {[cls |-> "RSI", period |-> p, oversold_threshold |-> a,
               overbought_threshold |-> b, symbol |-> "SYMBOL"] :
                 p \in Periods, a \in Thresholds, b \in Thresholds}
        \cup {[cls |-> "MACD", fast_period |-> a, slow_period |-> b,
               signal_period |-> 1, symbol |-> "SYMBOL"] :
                 a \in Windows, b \in Windows}

\* what __init__ has assigned to self when it reaches its validation
assigned_by_init(a) ==
    CASE a.cls = "BuyAndHold" -> NewBuyAndHold(a.symbol)
      [] a.cls = "MovingAverage" ->
            NewMovingAverage(a.short_window, a.long_window, a.symbol)
      [] a.cls = "RSI" ->
            NewRSI(a.period, a.oversold_threshold, a.overbought_threshold,
                   a.symbol)
      [] a.cls = "MACD" ->
            NewMACD(a.fast_period, a.slow_period, a.signal_period, a.symbol)

\* the "Validate parameters" block of __init__ and of set_parameters:
\* does it raise ValueError for the attributes of S?
validation_raises(S) ==
    CASE S.kind = "MovingAverage" ->
            MovingAverage_invalid(S.short_window, S.long_window)
      [] S.kind = "RSI" ->
            RSI_invalid(S.oversold_threshold, S.overbought_threshold)
      [] S.kind = "MACD" -> MACD_invalid(S.fast_period, S.slow_period)
      [] OTHER -> FALSE

\* get_parameters of the four strategy classes
get_parameters(S) ==
    CASE S.kind = "BuyAndHold" -> [symbol |-> S.symbol]
      [] S.kind = "MovingAverage" ->
            [short_window |-> S.short_window, long_window |-> S.long_window,
             symbol |-> S.symbol]
      [] S.kind = "RSI" ->
            [period |-> S.period,
             oversold_threshold |-> S.oversold_threshold,
             overbought_threshold |-> S.overbought_threshold,
             symbol |-> S.symbol]
      [] S.kind = "MACD" ->
            [fast_period |-> S.fast_period, slow_period |-> S.slow_period,
             signal_period |-> S.signal_period, symbol |-> S.symbol]

\* the numeric keyword arguments a set_parameters call can carry for S
NumericKwargs(S) ==
    LET some(keys, values) ==
            UNION {[K -> values] : K \in SUBSET keys}
    IN  CASE S.kind = "MovingAverage" ->
                some({"short_window", "long_window"}, Windows)
          [] S.kind = "RSI" ->
                { f \in some({"period", "oversold_threshold",
                              "overbought_threshold"},
                             Periods \cup Thresholds) :
                    /\ "period" \in DOMAIN f => f.period \in Periods
                    /\ \A k \in DOMAIN f \ {"period"} : f[k] \in Thresholds }
          [] S.kind = "MACD" ->
                some({"fast_period", "slow_period"}, Windows)
          [] OTHER -> {<<>>}

\* the symbol keyword argument: absent or given
SymbolKwargs == UNION {[K -> {"AAPL"}] : K \in SUBSET {"symbol"}}

\* the value of attribute key after the assignments of set_parameters
set_to(S, kwargs, key) == IF key \in DOMAIN kwargs THEN kwargs[key] ELSE S[key]

\* set_parameters(**kwargs) of the four classes: the assignments, then the
\* validation; the keyword arguments are given as the numeric ones and the symbol
set_parameters(S, nums, syms) ==
    LET S1 == CASE S.kind = "MovingAverage" ->
                     [S EXCEPT !.short_window = set_to(S, nums, "short_window"),
                               !.long_window = set_to(S, nums, "long_window"),
                               !.symbol = set_to(S, syms, "symbol")]
                [] S.kind = "RSI" ->
                     [S EXCEPT !.period = set_to(S, nums, "period"),
                               !.oversold_threshold =
                                   set_to(S, nums, "oversold_threshold"),
                               !.overbought_threshold =
                                   set_to(S, nums, "overbought_threshold"),
                               !.symbol = set_to(S, syms, "symbol")]
                [] S.kind = "MACD" ->
                     [S EXCEPT !.fast_period = set_to(S, nums, "fast_period"),
                               !.slow_period = set_to(S, nums, "slow_period"),
                               !.symbol = set_to(S, syms, "symbol")]
                [] OTHER -> [S EXCEPT !.symbol = set_to(S, syms, "symbol")]
    IN  [raised |-> IF validation_raises(S1) THEN "ValueError" ELSE "none",
         S |-> S1]

\* the price series handed to the strategies' methods: the closes of the
\* engine's data in every order, and rising series 100, 101, 102, ...
TrendingSeqs == {[k \in 1..n |-> Fl(99 + k)] : n \in 1..MaxPrices}
PriceSeqs == UNION {[1..n -> Closes] : n \in 0..MaxPrices} \cup TrendingSeqs

\* a DataFrame whose close column is the given series
bars_of(prices) ==
    [k \in 1..Len(prices) |-> [timestamp |-> k, close |-> prices[k]]]

\* RSIStrategy.calculate_rsi, line 66: delta.where(delta > 0, 0) at row k;
\* the first difference is NaN, NaN > 0 is false, so the row becomes 0
gain_at(prices, k) ==
    IF k = 1 THEN Zero
    ELSE LET delta == FSub(prices[k], prices[k - 1])
         IN  IF FGt(delta, Zero) THEN delta ELSE Zero

\* line 67: -delta.where(delta < 0, 0) at row k
loss_at(prices, k) ==
    IF k = 1 THEN Zero
    ELSE LET delta == FSub(prices[k], prices[k - 1])
         IN  IF FLt(delta, Zero) THEN FNeg(delta) ELSE Zero

RECURSIVE SumGains(_, _, _)
\* the sum of the gain rows lo..hi, added in their order
SumGains(prices, lo, hi) ==
    IF lo > hi THEN Zero
    ELSE FAdd(SumGains(prices, lo, hi - 1), gain_at(prices, hi))

RECURSIVE SumLosses(_, _, _)
\* the sum of the loss rows lo..hi, added in their order
SumLosses(prices, lo, hi) ==
    IF lo > hi THEN Zero
    ELSE FAdd(SumLosses(prices, lo, hi - 1), loss_at(prices, hi))

NaN == [kind |-> "nan"]
Number(x) == [kind |-> "number", value |-> x]

\* calculate_rsi at row k: rolling(window = period).mean() is NaN before a
\* full window; gain / loss is inf for a loss of 0 (NaN for 0 / 0), and
\* 100 - 100 / (1 + inf) is 100
rsi_at(period, prices, k) ==
    IF k < period THEN NaN
    ELSE
    LET gain == FDiv(SumGains(prices, k - period + 1, k), Fl(period))
        loss == FDiv(SumLosses(prices, k - period + 1, k), Fl(period))
    IN  IF loss = Zero
        THEN IF gain = Zero THEN NaN ELSE Number(Fl(100))
        ELSE LET rs == FDiv(gain, loss)
             IN  Number(FSub(Fl(100), FDiv(Fl(100), FAdd(Fl(1), rs))))

\* RSIStrategy.calculate_rsi: the RSI series of a price series
calculate_rsi(S, prices) ==
    [k \in 1..Len(prices) |-> rsi_at(S.period, prices, k)]

\* ---------------------------------------------------------------- engine
\* the price data: one bar per timestamp 1, 2, ...
BarSeqs ==
    UNION { { [k \in 1..n |-> [timestamp |-> k, close |-> f[k]]] :
                f \in [1..n -> Closes] } : n \in 1..MaxBars }

\* (start_date, end_date) arguments; 0 stands for None
DateRanges == {<<0, 0>>, <<2, 0>>, <<2, 1>>}

RECURSIVE SelectBars(_, _, _)
\* data[data.index >= start_date][data.index <= end_date]
SelectBars(bars, start_date, end_date) ==
    IF bars = <<>> THEN <<>>
    ELSE LET b == Head(bars)
             keep == /\ (start_date # 0 => b.timestamp >= start_date)
                     /\ (end_date # 0 => b.timestamp <= end_date)
             rest == SelectBars(Tail(bars), start_date, end_date)
         IN  IF keep THEN <<b>> \o rest ELSE rest

_extract_symbols(data) == {"AAPL"}

\* column names in which _get_current_prices finds a price
PriceColumns == {"close", "Close", "adj_close", "price"}

\* _get_current_prices returns a mapping (it raises ValueError otherwise)
has_price_column(row) == DOMAIN row \cap PriceColumns # {}

\* _get_current_prices for a row that has a price column
_get_current_prices(row, symbols) ==
    LET col == IF "close" \in DOMAIN row THEN "close"
               ELSE IF "Close" \in DOMAIN row THEN "Close"
               ELSE CHOOSE c \in DOMAIN row \cap PriceColumns : TRUE
    IN  [s \in symbols |-> row[col]]

\* data whose rows have no price column, and data with a close of 0.0
OddBarSeqs ==
    { <<[timestamp |-> 1, open |-> Fl(100)]>>,
      <<[timestamp |-> 1, close |-> Fl(100)],
        [timestamp |-> 2, close |-> Zero]>> }

\* an engine that hands every step the whole data
bars_all(bars, idx) == bars

\* run_backtest, line 93: data.iloc[:i+1]
bars_so_far(bars, idx) == SubSeq(bars, 1, idx + 1)

\* _execute_trades, line 146: available_cash / current_price raises for a
\* price of 0.0 (ZeroDivisionError; with a numpy price the quotient is inf
\* or nan and int() raises OverflowError or ValueError)
sizing_raises(P, symbol, signal, current_prices) ==
    /\ symbol \in DOMAIN current_prices
    /\ signal = "BUY"
    /\ get_position_size(P, symbol) = 0
    /\ current_prices[symbol] = Zero

\* BacktestEngine._execute_trades for the one-entry mapping {symbol: signal}
_execute_trades(P, symbol, signal, current_prices, timestamp) ==
    IF symbol \notin DOMAIN current_prices THEN P
    ELSE
    LET current_price    == current_prices[symbol]
        current_position == get_position_size(P, symbol)
        available_cash   == FMul(P.cash, Lit(95, 100))
        shares_to_buy    == FInt(FDiv(available_cash, current_price))
    IN  IF signal = "BUY" /\ current_position = 0
        THEN IF shares_to_buy > 0
             THEN buy(P, symbol, shares_to_buy, current_price, timestamp).P
             ELSE P
        ELSE IF signal = "SELL" /\ current_position > 0
        THEN sell(P, symbol, current_position, current_price, timestamp).P
        ELSE P

\* ------------------------------------------------------- BacktestResults
\* [h['portfolio_value'] for h in self.portfolio.portfolio_history]
portfolio_values(P) ==
    [k \in 1..Len(P.portfolio_history) |->
        P.portfolio_history[k].portfolio_value]

RECURSIVE drawdown_loop(_, _, _, _)
\* the loop of _calculate_max_drawdown from the k-th value on
drawdown_loop(values, k, peak, max_dd) ==
    IF k > Len(values) THEN max_dd
    ELSE LET value    == values[k]
             peak1    == IF FGt(value, peak) THEN value ELSE peak
             drawdown == FDiv(FSub(peak1, value), peak1)
         IN  drawdown_loop(values, k + 1, peak1, FMax(max_dd, drawdown))

\* the largest decline from the first value
_max_decline_from_first(values) ==
    IF values = <<>> THEN Zero
    ELSE LET Decline(k) == FDiv(FSub(values[1], values[k]), values[1])
             all == {Decline(k) : k \in 1..Len(values)}
         IN  CHOOSE x \in all : \A y \in all : FGe(x, y)

\* BacktestResults._calculate_max_drawdown
_calculate_max_drawdown(values) ==
    IF values = <<>> THEN Zero
    ELSE drawdown_loop(values, 1, values[1], Zero)

\* pd.Series(portfolio_values).pct_change().dropna(), for values none of
\* which but the last is 0.0
pct_change(values) ==
    [k \in 1..(Len(values) - 1) |->
        FDiv(FSub(values[k + 1], values[k]), values[k])]

RECURSIVE SumSeq(_, _)
\* the sum of the first k floats of a sequence
SumSeq(xs, k) == IF k = 0 THEN Zero ELSE FAdd(SumSeq(xs, k - 1), xs[k])

\* returns.std() is 0: the squared deviations from the mean add up to 0.0
std_is_zero(returns) ==
    LET avg == FDiv(SumSeq(returns, Len(returns)), Fl(Len(returns)))
        sqr == [k \in 1..Len(returns) |->
                   FMul(FSub(avg, returns[k]), FSub(avg, returns[k]))]
    IN  SumSeq(sqr, Len(returns)) = Zero

\* BacktestResults._calculate_sharpe_ratio: "0.0", "nan" (an undefined
\* value), or "number", a float the model does not compute
_calculate_sharpe_ratio(values) ==
    IF Len(values) - 1 = 0 THEN "0.0"
    ELSE IF \E k \in 1..(Len(values) - 1) : values[k] = Zero THEN "nan"
    \* the standard deviation (ddof = 1) of one return is NaN
    ELSE IF Len(values) - 1 = 1 THEN "nan"
    ELSE IF std_is_zero(pct_change(values)) THEN "0.0"
    ELSE "number"

\* max(a, b) of two integers
IMax(a, b) == IF a >= b THEN a ELSE b

\* BacktestResults._calculate_metrics: the metric mapping
_calculate_metrics(P) ==
    IF P.portfolio_history = <<>> THEN <<>>
    ELSE
    LET values == portfolio_values(P)
    IN  [ total_return |->
              FDiv(FSub(values[Len(values)], P.initial_capital),
                   P.initial_capital),
          sharpe_ratio |-> _calculate_sharpe_ratio(values),
          max_drawdown |-> _calculate_max_drawdown(values),
          win_rate |->
              FDiv(Fl(P.winning_trades), Fl(IMax(P.total_trades, 1))),
          total_trades |-> P.total_trades,
          total_trading_costs_paid |-> P.total_trading_costs_paid,
          total_taxes_paid |-> P.total_taxes_paid,
          final_portfolio_value |-> values[Len(values)] ]

\* ---------------------------------------------------- PerformanceMetrics
RECURSIVE unique_symbols(_)
\* trades['symbol'].unique(): the symbols in the order they first appear
unique_symbols(trades) ==
    IF trades = <<>> THEN <<>>
    ELSE LET before == unique_symbols(SubSeq(trades, 1, Len(trades) - 1))
             s == trades[Len(trades)].symbol
         IN  IF \E k \in 1..Len(before) : before[k] = s THEN before
             ELSE Append(before, s)

\* _calculate_trade_metrics reads trade['cost'] of every BUY row and
\* trade['proceeds'] of every SELL row: KeyError when the column is missing
trade_columns_missing(trades) ==
    \E k \in 1..Len(trades) :
       \/ trades[k].action = "BUY" /\ "cost" \notin DOMAIN trades[k]
       \/ trades[k].action = "SELL" /\ "proceeds" \notin DOMAIN trades[k]

RECURSIVE sum_column(_, _, _, _)
\* the sum of a column over the rows of one symbol and one action
sum_column(trades, s, action, column) ==
    IF trades = <<>> THEN Zero
    ELSE LET t == trades[Len(trades)]
             before == sum_column(SubSeq(trades, 1, Len(trades) - 1), s,
                                  action, column)
         IN  IF t.symbol = s /\ t.action = action
             THEN FAdd(before, t[column]) ELSE before

RECURSIVE symbol_pnl(_, _)
\* trade_pnl: per symbol, sell proceeds - buy cost when both are > 0
symbol_pnl(trades, symbols) ==
    IF symbols = <<>> THEN <<>>
    ELSE LET s == Head(symbols)
             buy_cost == sum_column(trades, s, "BUY", "cost")
             sell_proceeds == sum_column(trades, s, "SELL", "proceeds")
             rest == symbol_pnl(trades, Tail(symbols))
         IN  IF FGt(buy_cost, Zero) /\ FGt(sell_proceeds, Zero)
             THEN <<FSub(sell_proceeds, buy_cost)>> \o rest
             ELSE rest

\* [x for x in xs if keep(x)] for the wins (sign 1) or losses (sign -1)
RECURSIVE pnl_of_sign(_, _)
pnl_of_sign(xs, sign) ==
    IF xs = <<>> THEN <<>>
    ELSE LET rest == pnl_of_sign(Tail(xs), sign)
         IN  IF Sign(Head(xs).m) = sign THEN <<Head(xs)>> \o rest ELSE rest

\* np.mean(xs) if xs else 0
mean_or_zero(xs) ==
    IF xs = <<>> THEN Zero ELSE FDiv(SumSeq(xs, Len(xs)), Fl(Len(xs)))

\* max(xs) if xs else 0
largest_or_zero(xs) ==
    IF xs = <<>> THEN Zero
    ELSE LET all == {xs[k] : k \in 1..Len(xs)}
         IN  CHOOSE x \in all : \A y \in all : FGe(x, y)

\* min(xs) if xs else 0
smallest_or_zero(xs) ==
    IF xs = <<>> THEN Zero
    ELSE LET all == {xs[k] : k \in 1..Len(xs)}
         IN  CHOOSE x \in all : \A y \in all : FLe(x, y)

\* PerformanceMetrics._calculate_trade_metrics on the DataFrame of a trade
\* log: the exception raised, or the statistics returned
_calculate_trade_metrics(trades) ==
    IF trades = <<>>
    THEN [raised |-> "none", total_trades |-> 0, avg_win |-> Zero,
          avg_loss |-> Zero, largest_win |-> Zero, largest_loss |-> Zero]
    ELSE IF trade_columns_missing(trades) THEN [raised |-> "KeyError"]
    ELSE
    LET trade_pnl == symbol_pnl(trades, unique_symbols(trades))
        winning_trades == pnl_of_sign(trade_pnl, 1)
        losing_trades == pnl_of_sign(trade_pnl, 0 - 1)
    IN  [raised |-> "none", total_trades |-> Len(trades),
         avg_win |-> mean_or_zero(winning_trades),
         avg_loss |-> mean_or_zero(losing_trades),
         largest_win |-> largest_or_zero(winning_trades),
         largest_loss |-> smallest_or_zero(losing_trades)]

RECURSIVE cumprod(_, _)
\* (1 + returns).cumprod() at row k
cumprod(returns, k) ==
    IF k = 1 THEN FAdd(Fl(1), returns[1])
    ELSE FMul(cumprod(returns, k - 1), FAdd(Fl(1), returns[k]))

RECURSIVE expanding_max(_, _)
\* cumulative_returns.expanding().max() at row k
expanding_max(returns, k) ==
    IF k = 1 THEN cumprod(returns, 1)
    ELSE FMax(expanding_max(returns, k - 1), cumprod(returns, k))

\* abs(x) of a float
FAbs(x) == IF FLt(x, Zero) THEN FNeg(x) ELSE x

\* PerformanceMetrics._calculate_max_drawdown, applied to a return series
_calculate_max_drawdown_of_returns(returns) ==
    IF returns = <<>> THEN Zero
    ELSE LET drawdown(k) ==
                 FDiv(FSub(cumprod(returns, k), expanding_max(returns, k)),
                      expanding_max(returns, k))
             all == {drawdown(k) : k \in 1..Len(returns)}
         IN  FAbs(CHOOSE x \in all : \A y \in all : FLe(x, y))

\* ------------------------------------------------------------------ state
VARIABLES
    portfolio,   \* the Portfolio object (the engine's self.portfolio)
    call,        \* the method last called on the Portfolio
    ret,         \* what that call returned, or the exception it raised
    ncalls,      \* number of API calls made so far
    pc,          \* where the engine is: idle, loop, final, done, ValueError
    args,        \* run_backtest arguments: data, start_date, end_date
    strategy,    \* the strategy object handed to run_backtest
    data,        \* run_backtest's local data (after date filtering)
    i,           \* number of bars the loop has processed
    handed,      \* the bars last handed to the strategy, and by which call
    now,         \* timestamp of the bar being processed (0: none yet)
    bar_end,     \* per processed bar: cash and positions after its trades
    runs,        \* per completed run: its trade log and value history
    metrics      \* the metric mapping of the BacktestResults last made

pvars == <<portfolio, call, ret, ncalls>>
evars == <<pc, args, strategy, data, i, handed, now, bar_end, runs, metrics>>
vars == <<portfolio, call, ret, ncalls,
          pc, args, strategy, data, i, handed, now, bar_end, runs, metrics>>

NoArgs == [data |-> <<>>, start_date |-> 0, end_date |-> 0]
NotHanded == [by |-> "none", bars |-> <<>>]

\* a Portfolio constructed directly and used through its API
Init ==
    /\ \E c \in InitialCapitals, cfg \in Configs :
          portfolio = NewPortfolio(c, cfg[1], cfg[2])
    /\ call = "none"
    /\ ret = "none"
    /\ ncalls = 0
    /\ pc = "idle"
    /\ args = NoArgs
    /\ strategy = [kind |-> "none"]
    /\ data = <<>>
    /\ i = 0
    /\ handed = NotHanded
    /\ now = 0
    /\ bar_end = <<>>
    /\ runs = <<>>
    /\ metrics = <<>>

\* a caller of the Portfolio API stops using the object once a call raised
Callable == ncalls < MaxCalls /\ ret # "KeyError"

DoBuy(symbol, shares, price) ==
    /\ Callable
    /\ LET r == buy(portfolio, symbol, shares, price, ncalls + 1)
       IN  /\ portfolio' = r.P
           /\ ret' = r.ret
    /\ call' = "buy"
    /\ ncalls' = ncalls + 1
    /\ UNCHANGED evars

DoSell(symbol, shares, price) ==
    /\ Callable
    /\ LET r == sell(portfolio, symbol, shares, price, ncalls + 1)
       IN  /\ portfolio' = r.P
           /\ ret' = r.ret
    /\ call' = "sell"
    /\ ncalls' = ncalls + 1
    /\ UNCHANGED evars

DoUpdate(price) ==
    /\ Callable
    /\ portfolio' = update_portfolio_value(portfolio,
                        [s \in {"AAPL"} |-> price], ncalls + 1)
    /\ ret' = "None"
    /\ call' = "update_portfolio_value"
    /\ ncalls' = ncalls + 1
    /\ UNCHANGED evars

DoReset ==
    /\ Callable
    /\ portfolio' = reset(portfolio)
    /\ ret' = "None"
    /\ call' = "reset"
    /\ ncalls' = ncalls + 1
    /\ UNCHANGED evars

\* the Portfolio API driven with well-formed arguments
Buy == \E o \in ValidOrders : DoBuy(o[1], o[2], o[3])
Sell == \E o \in ValidOrders : DoSell(o[1], o[2], o[3])
Update == \E p \in {Fl(150)} : DoUpdate(p)
Reset == DoReset

Next == Buy \/ Sell \/ Update \/ Reset

Spec == Init /\ [][Next]_vars

\* the Portfolio API driven with any integer share count and any price
BuyAny == \E o \in AnyOrders : DoBuy(o[1], o[2], o[3])
SellAny == \E o \in AnyOrders : DoSell(o[1], o[2], o[3])

NextAny == BuyAny \/ SellAny

SpecAny == Init /\ [][NextAny]_vars

\* ------------------------------------------------- BacktestEngine at work
\* initial_capital of the engines: enough for several shares, and enough
\* for one share only
RunCapitals == InitialCapitals \cup {Fl(104)}

\* BacktestEngine.__init__, a strategy constructed, run_backtest arguments
InitEngine ==
    /\ \E c \in RunCapitals, cfg \in Configs :
          portfolio = NewPortfolio(c, cfg[1], cfg[2])
    /\ call = "none"
    /\ ret = "none"
    /\ ncalls = 0
    /\ pc = "idle"
    /\ \E bars \in BarSeqs, r \in DateRanges :
          args = [data |-> bars, start_date |-> r[1], end_date |-> r[2]]
    /\ strategy \in Strategies
    /\ data = <<>>
    /\ i = 0
    /\ handed = NotHanded
    /\ now = 0
    /\ bar_end = <<>>
    /\ runs = <<>>
    /\ metrics = <<>>

\* run_backtest, lines 65-83: filter, reset the portfolio, initialize
RunStart ==
    /\ pc \in {"idle", "done"}
    /\ Len(runs) < MaxRuns
    /\ LET selected == SelectBars(args.data, args.start_date, args.end_date)
       IN  IF selected = <<>>
           THEN /\ pc' = "ValueError"
                /\ UNCHANGED <<portfolio, strategy, data, i, handed, now,
                               bar_end>>
           ELSE /\ pc' = "loop"
                /\ data' = selected
                /\ portfolio' = reset(portfolio)
                /\ strategy' = initialize(strategy, selected)
                /\ handed' = [by |-> "initialize", bars |-> selected]
                /\ now' = selected[1].timestamp
                /\ i' = 0
                /\ bar_end' = <<>>
    /\ UNCHANGED <<call, ret, ncalls, args, runs, metrics>>

\* run_backtest, lines 86-96: one iteration of the loop over the bars
BarStep ==
    /\ pc = "loop"
    /\ LET row == data[i + 1]
           timestamp == row.timestamp
       IN  IF ~has_price_column(row)
           THEN /\ pc' = "ValueError"
                /\ UNCHANGED <<portfolio, strategy, handed, now, bar_end, i>>
           ELSE
           LET current_prices ==
                   _get_current_prices(row, _extract_symbols(data))
               P1 == update_portfolio_value(portfolio, current_prices,
                                            timestamp)
               given == bars_so_far(data, i)
           IN  \E g \in signal_outcomes(strategy, given) :
                  /\ strategy' = g.S
                  /\ handed' = [by |-> "generate_signals", bars |-> given]
                  /\ now' = timestamp
                  /\ IF sizing_raises(P1, strategy.symbol, g.signal,
                                      current_prices)
                     THEN /\ pc' = "ZeroDivisionError"
                          /\ portfolio' = P1
                          /\ UNCHANGED <<bar_end, i>>
                     ELSE LET P2 == _execute_trades(P1, strategy.symbol,
                                        g.signal, current_prices, timestamp)
                          IN  /\ portfolio' = P2
                              /\ bar_end' =
                                    Append(bar_end,
                                           [cash |-> P2.cash,
                                            positions |-> P2.positions])
                              /\ i' = i + 1
                              /\ pc' = IF i + 1 = Len(data) THEN "final"
                                       ELSE "loop"
    /\ UNCHANGED <<call, ret, ncalls, args, data, runs, metrics>>

\* a run that ends without the final update of lines 99-100
RunFinish_without_final_update ==
    /\ pc = "final"
    /\ runs' = Append(runs, [trades |-> portfolio.trades,
                             portfolio_history |-> portfolio.portfolio_history])
    /\ metrics' = _calculate_metrics(portfolio)
    /\ pc' = "done"
    /\ UNCHANGED <<portfolio, call, ret, ncalls, args, strategy, data, i,
                   handed, now, bar_end>>

\* run_backtest, lines 98-111: final update, BacktestResults
RunFinish ==
    /\ pc = "final"
    /\ LET final_prices ==
               _get_current_prices(data[Len(data)], _extract_symbols(data))
           P1 == update_portfolio_value(portfolio, final_prices,
                                        data[Len(data)].timestamp)
       IN  /\ portfolio' = P1
           /\ runs' = Append(runs, [trades |-> P1.trades,
                                    portfolio_history |-> P1.portfolio_history])
           /\ metrics' = _calculate_metrics(P1)
    /\ pc' = "done"
    /\ UNCHANGED <<call, ret, ncalls, args, strategy, data, i, handed, now,
                   bar_end>>

NextEngine == RunStart \/ BarStep \/ RunFinish

SpecEngine == InitEngine /\ [][NextEngine]_vars

\* ------------------------------ the engine run with any strategy and data
EngineCapitals == {Fl(1010), Fl(106)}

\* BacktestEngine.__init__, a user-defined strategy, run_backtest arguments
InitSignals ==
    /\ \E c \in EngineCapitals, cfg \in Configs :
          portfolio = NewPortfolio(c, cfg[1], cfg[2])
    /\ call = "none"
    /\ ret = "none"
    /\ ncalls = 0
    /\ pc = "idle"
    /\ \E bars \in BarSeqs \cup OddBarSeqs, r \in DateRanges :
          args = [data |-> bars, start_date |-> r[1], end_date |-> r[2]]
    /\ strategy = NewCustom("AAPL")
    /\ data = <<>>
    /\ i = 0
    /\ handed = NotHanded
    /\ now = 0
    /\ bar_end = <<>>
    /\ runs = <<>>
    /\ metrics = <<>>

\* one call of run_backtest
RunOnce == pc = "idle" /\ RunStart

NextSignals == RunOnce \/ BarStep \/ RunFinish

SpecSignals == InitSignals /\ [][NextSignals]_vars

\* ------------------------- BacktestResults made of a given value history
HistoryValues == {Fl(9000), Fl(10000), Fl(11000), Fl(12000)}

\* a Portfolio whose history holds the given values, one snapshot each
PortfolioWithHistory(values) ==
    LET P == NewPortfolio(Fl(10000), FixedCost10, Tax25)
    IN  [P EXCEPT
           !.portfolio_value = values[Len(values)],
           !.portfolio_history =
               [k \in 1..Len(values) |->
                   [ timestamp |-> k, cash |-> values[k], positions |-> <<>>,
                     portfolio_value |-> values[k], total_trades |-> 0,
                     total_trading_costs_paid |-> Zero,
                     total_taxes_paid |-> Zero ]]]

InitMetrics ==
    /\ \E n \in 1..MaxValues : \E values \in [1..n -> HistoryValues] :
          portfolio = PortfolioWithHistory(values)
    /\ call = "none"
    /\ ret = "none"
    /\ ncalls = 0
    /\ pc = "results"
    /\ args = NoArgs
    /\ strategy = [kind |-> "none"]
    /\ data = <<>>
    /\ i = 0
    /\ handed = NotHanded
    /\ now = 0
    /\ bar_end = <<>>
    /\ runs = <<>>
    /\ metrics = <<>>

\* BacktestResults.__init__: the metrics are computed at construction
MakeResults ==
    /\ pc = "results"
    /\ metrics' = _calculate_metrics(portfolio)
    /\ pc' = "made"
    /\ UNCHANGED <<portfolio, call, ret, ncalls, args, strategy, data, i,
                   handed, now, bar_end, runs>>

\* PerformanceMetrics()._calculate_max_drawdown(returns) for the returns of
\* the same value history (lines 106 and 226 call it with them)
MaxDrawdownOfReturns ==
    /\ pc = "made"
    /\ call' = "_calculate_max_drawdown"
    /\ ret' = _calculate_max_drawdown_of_returns(
                  pct_change(portfolio_values(portfolio)))
    /\ pc' = "analysed"
    /\ UNCHANGED <<portfolio, ncalls, args, strategy, data, i, handed, now,
                   bar_end, runs, metrics>>

NextMetrics == MakeResults \/ MaxDrawdownOfReturns

SpecMetrics == InitMetrics /\ [][NextMetrics]_vars

\* ------------------------------------------ strategy objects on their own
\* no strategy object yet; the caller constructs one and calls its methods
InitStrategy ==
    /\ portfolio = NewPortfolio(Fl(1010), FixedCost10, Tax25)
    /\ call = "none"
    /\ ret = "none"
    /\ ncalls = 0
    /\ pc = "idle"
    /\ args = NoArgs
    /\ strategy = [kind |-> "none"]
    /\ data = <<>>
    /\ i = 0
    /\ handed = NotHanded
    /\ now = 0
    /\ bar_end = <<>>
    /\ runs = <<>>
    /\ metrics = <<>>

\* strategy = Class(**args): __init__ assigns the attributes, then
\* validates them; when it raises, the caller gets no object
Construct ==
    /\ strategy.kind = "none"
    /\ ncalls < MaxCalls
    /\ \E a \in ConstructorArgs :
          LET self == assigned_by_init(a)
          IN  /\ args' = a
              /\ IF validation_raises(self)
                 THEN pc' = "ValueError" /\ strategy' = strategy
                 ELSE pc' = "returned" /\ strategy' = self
    /\ call' = "__init__"
    /\ ret' = "none"
    /\ ncalls' = ncalls + 1
    /\ UNCHANGED <<portfolio, data, i, handed, now, bar_end, runs, metrics>>

\* strategy.set_parameters(**kwargs); the caller may catch the ValueError
\* and go on using the object
SetParameters ==
    /\ strategy.kind # "none"
    /\ ncalls < MaxCalls
    /\ \E nums \in NumericKwargs(strategy), syms \in SymbolKwargs :
          LET r == set_parameters(strategy, nums, syms)
          IN  /\ args' = [numbers |-> nums, symbol |-> syms]
              /\ strategy' = r.S
              /\ pc' = IF r.raised = "none" THEN "returned" ELSE r.raised
    /\ call' = "set_parameters"
    /\ ret' = "none"
    /\ ncalls' = ncalls + 1
    /\ UNCHANGED <<portfolio, data, i, handed, now, bar_end, runs, metrics>>

\* strategy.generate_signals(data) called directly: the mapping returned
GenerateSignals ==
    /\ strategy.kind \in {"BuyAndHold", "MovingAverage"}
    /\ ncalls < MaxCalls
    /\ \E prices \in PriceSeqs :
          LET g == generate_signals(strategy, bars_of(prices))
          IN  /\ args' = [data |-> bars_of(prices)]
              /\ strategy' = g.S
              /\ ret' = [s \in {strategy.symbol} |-> g.signal]
    /\ call' = "generate_signals"
    /\ pc' = "returned"
    /\ ncalls' = ncalls + 1
    /\ UNCHANGED <<portfolio, data, i, handed, now, bar_end, runs, metrics>>

\* strategy.calculate_rsi(prices): the series returned
CalculateRsi ==
    /\ strategy.kind = "RSI"
    /\ ncalls < MaxCalls
    /\ \E prices \in PriceSeqs :
          /\ args' = [prices |-> prices]
          /\ ret' = calculate_rsi(strategy, prices)
    /\ call' = "calculate_rsi"
    /\ pc' = "returned"
    /\ ncalls' = ncalls + 1
    /\ UNCHANGED <<portfolio, strategy, data, i, handed, now, bar_end, runs,
                   metrics>>

\* a caller that constructs a strategy and changes its parameters
NextParameters == Construct \/ SetParameters

SpecParameters == InitStrategy /\ [][NextParameters]_vars

\* a caller that constructs a strategy and asks it for signals or the RSI
NextStrategy == Construct \/ GenerateSignals \/ CalculateRsi

SpecStrategy == InitStrategy /\ [][NextStrategy]_vars

\* ----------------------------------------------------------- properties
Last(seq) == seq[Len(seq)]
Shares(P, s) == Get(P.positions, s, 0)
Basis(P, s) == Get(P.position_cost_basis, s, Zero)
\* the step is a call of buy / sell that returned True
AcceptedBuy == call' = "buy" /\ ret' = "True" /\ ncalls' = ncalls + 1
AcceptedSell == call' = "sell" /\ ret' = "True" /\ ncalls' = ncalls + 1

\* C1: cash is >= 0 in every state reachable by buy and sell calls
C1_CashNeverNegative == FGe(portfolio.cash, Zero)

\* C2: an accepted buy of n shares raises the shares of its symbol by n, an
\* accepted sell lowers them by n, no other symbol's shares change, and no
\* symbol ever has a negative number of shares
C2_SharesConserved ==
    /\ [][ (AcceptedBuy \/ AcceptedSell) =>
             LET t == Last(portfolio'.trades)
                 n == IF t.action = "BUY" THEN t.shares ELSE 0 - t.shares
             IN  \A s \in Symbols :
                    Shares(portfolio', s) =
                        Shares(portfolio, s) + (IF s = t.symbol THEN n ELSE 0)
         ]_vars
    /\ [](\A s \in Symbols : Shares(portfolio, s) >= 0)

\* C3: a symbol of which 0 shares are held has a cost basis of exactly 0
C3_FlatMeansZeroBasis ==
    \A s \in Symbols : Shares(portfolio, s) = 0 => Basis(portfolio, s) = Zero

\* C4: a call of buy or sell that fails (returns False or raises) leaves
\* every field of the Portfolio as it was before the call
C4_FailedCallChangesNothing ==
    [][ (call' \in {"buy", "sell"} /\ ncalls' = ncalls + 1
            /\ ret' \in {"False", "KeyError"})
          => portfolio' = portfolio ]_vars

\* C5 as stated: whatever bars the engine hands the strategy, by initialize
\* before the loop or by generate_signals in it, none of them is later than
\* the bar being processed
C5_NeverHandedLaterBar ==
    \A k \in 1..Len(handed.bars) : handed.bars[k].timestamp <= now

\* C5 as amended: generate_signals at step i gets exactly the bars 0..i of
\* the filtered data, none of them later than the bar being processed,
\* while initialize gets the whole filtered data
C5_SignalsGetPrefix ==
    /\ handed.by = "generate_signals" =>
          /\ i >= 1
          /\ now = data[i].timestamp
          /\ handed.bars = [k \in 1..i |-> data[k]]
          /\ \A k \in 1..Len(handed.bars) : handed.bars[k].timestamp <= now
    /\ handed.by = "initialize" => handed.bars = data

C5_Witness ==
    /\ pc = "loop"
    /\ handed.by = "generate_signals"
    /\ i >= 2
    /\ i < Len(data)

\* C6: two runs in a row of the same engine on the same bars with the same
\* strategy give the same trade log and the same value history
C6_RunsRepeat ==
    Len(runs) >= 2 => runs[1] = runs[2]

\* C7: after a run over N bars the history has N snapshots, the k-th with
\* the k-th bar's timestamp and the cash and positions after its trades
C7_OneSnapshotPerBar ==
    pc = "done" =>
        /\ Len(portfolio.portfolio_history) = Len(data)
        /\ \A k \in 1..Len(data) :
              k <= Len(portfolio.portfolio_history) =>
                 /\ portfolio.portfolio_history[k].timestamp = data[k].timestamp
                 /\ portfolio.portfolio_history[k].cash = bar_end[k].cash
                 /\ portfolio.portfolio_history[k].positions
                       = bar_end[k].positions

C9_BuyAccounting ==
    /\ [][ AcceptedBuy =>
             LET t == Last(portfolio'.trades)
                 notional == FMul(Fl(t.shares), t.price)
                 cost     == calculate_trading_cost(portfolio, notional, "BUY")
                 debit    == FAdd(notional, cost)
             IN  /\ portfolio'.cash = FSub(portfolio.cash, debit)
                 /\ Basis(portfolio', t.symbol) =
                       FAdd(Basis(portfolio, t.symbol), debit)
                 /\ portfolio'.trades = Append(portfolio.trades, t)
                 /\ t.action = "BUY"
                 /\ portfolio'.total_trades = portfolio.total_trades + 1
         ]_vars
    /\ []( ( /\ portfolio.trading_costs = FixedCost10
             /\ Len(portfolio.trades) >= 1
             /\ portfolio.trades[1].action = "BUY"
             /\ portfolio.trades[1].shares = 10
             /\ portfolio.trades[1].price = Fl(100) )
           => /\ portfolio.trades[1].total_cost = Fl(1010)
              /\ portfolio.trades[1].cash_after =
                    FSub(portfolio.initial_capital, Fl(1010))
              /\ ( ( /\ Len(portfolio.trades) >= 2
                     /\ portfolio.trades[2].action = "SELL"
                     /\ portfolio.trades[2].shares = 10
                     /\ portfolio.trades[2].price = Fl(100) )
                   => portfolio.trades[2].gross_proceeds = Fl(990) ) )

\* a buy that paid a trading cost has just been accepted
C9_Witness ==
    /\ call = "buy" /\ ret = "True"
    /\ Last(portfolio.trades).action = "BUY"
    /\ FGt(Last(portfolio.trades).trading_cost, Zero)
    /\ Len(portfolio.trades) >= 2

\* C10: buy is accepted exactly when shares > 0, price > 0 and
\* shares*price + trading_cost <= cash, and a buy with a non-positive share
\* count or price changes nothing
C10_BuyNeedsPositiveArguments ==
    [][ \A o \in AnyOrders :
          DoBuy(o[1], o[2], o[3]) =>
             LET notional == FMul(Fl(o[2]), o[3])
                 cost == calculate_trading_cost(portfolio, notional, "BUY")
             IN  /\ ret' = "True" <=>
                       /\ o[2] > 0
                       /\ FGt(o[3], Zero)
                       /\ FLe(FAdd(notional, cost), portfolio.cash)
                 /\ (o[2] <= 0 \/ FLe(o[3], Zero)) => portfolio' = portfolio
      ]_vars

\* profit values handed to calculate_tax: losses, break-even, gains
Profits ==
    {Fl(0 - 500), Fl(0 - 1), Zero, Lit(1, 3), Fl(1), Fl(100), Fl(101),
     Fl(500)}

\* C11: calculate_tax(profit) is 0 when apply_immediately is false or
\* profit <= tax_free_threshold, else (profit - threshold) * tax_rate; it is
\* >= 0 for every profit, and so is the tax of every sale in the trade log
C11_TaxNeverNegative ==
    LET Expected(P, profit) ==
            IF ~P.tax_config.apply_immediately
                  \/ FLe(profit, P.tax_config.tax_free_threshold)
            THEN Zero
            ELSE FMul(FSub(profit, P.tax_config.tax_free_threshold),
                      P.tax_config.tax_rate)
    IN  /\ \A p \in Profits :
              /\ calculate_tax(portfolio, p) = Expected(portfolio, p)
              /\ FGe(calculate_tax(portfolio, p), Zero)
        /\ \A k \in 1..Len(portfolio.trades) :
              portfolio.trades[k].action = "SELL" =>
                 /\ portfolio.trades[k].tax_paid
                       = Expected(portfolio, portfolio.trades[k].profit)
                 /\ FGe(portfolio.trades[k].tax_paid, Zero)
        /\ FGe(portfolio.total_taxes_paid, Zero)

\* a sale at a loss under a tax that applies has just been accepted
C11_Witness ==
    /\ call = "sell" /\ ret = "True"
    /\ portfolio.tax_config.apply_immediately
    /\ FLt(Last(portfolio.trades).profit, Zero)
    /\ Last(portfolio.trades).tax_paid = Zero

\* the step is a call of update_portfolio_value
Revalued == call' = "update_portfolio_value" /\ ncalls' = ncalls + 1

\* C12: update_portfolio_value changes portfolio_value, appends one
\* snapshot and leaves every other field of the Portfolio alone; only an
\* accepted sell raises total_taxes_paid, and no buy changes it
C12_UnrealizedGainsUntaxed ==
    [][ /\ Revalued =>
             /\ Len(portfolio'.portfolio_history)
                   = Len(portfolio.portfolio_history) + 1
             /\ portfolio' =
                   [portfolio EXCEPT
                      !.portfolio_value = portfolio'.portfolio_value,
                      !.portfolio_history =
                          Append(@, Last(portfolio'.portfolio_history))]
        /\ FGt(portfolio'.total_taxes_paid, portfolio.total_taxes_paid) =>
             AcceptedSell
        /\ (call' = "buy" /\ ncalls' = ncalls + 1) =>
             portfolio'.total_taxes_paid = portfolio.total_taxes_paid
      ]_vars

\* a position has just been marked at a price above what it cost, under a
\* tax that applies, and no tax has been paid
C12_Witness ==
    /\ call = "update_portfolio_value"
    /\ portfolio.tax_config.apply_immediately
    /\ Shares(portfolio, "AAPL") > 0
    /\ FGt(portfolio.portfolio_value, portfolio.initial_capital)
    /\ portfolio.total_taxes_paid = Zero
    /\ portfolio.cash = Last(portfolio.portfolio_history).cash

\* Portfolio(initial_capital, trading_costs_config, tax_config) built anew
\* with the arguments P was built with
Fresh(P) == NewPortfolio(P.initial_capital, P.trading_costs, P.tax_config)

\* C13: in every state reached by buy, sell and update_portfolio_value
\* calls reset() gives the freshly constructed Portfolio of the same
\* initial capital and configuration, and a second reset() changes nothing
C13_ResetRestoresFresh ==
    /\ reset(portfolio) = Fresh(portfolio)
    /\ reset(reset(portfolio)) = reset(portfolio)
    /\ call = "reset" => portfolio = Fresh(portfolio)

\* reset has just been called on a Portfolio that two calls had used
C13_Witness ==
    /\ call = "reset"
    /\ ncalls >= 3
    /\ portfolio.trades = <<>>
    /\ portfolio.position_cost_basis = <<>>

\* the step is one iteration of run_backtest's loop
Looped == pc = "loop" /\ i' = i + 1

\* C14: at a bar where the strategy emits BUY for its symbol, the Portfolio
\* holds 0 shares of it and n = floor(0.95 * cash / close) > 0, the engine
\* calls buy(symbol, n, close) on the Portfolio, whatever the symbol is
C14_BuySignalIsExecuted ==
    [][ Looped =>
          LET row == data[i + 1]
              P1  == update_portfolio_value(
                         portfolio,
                         _get_current_prices(row, _extract_symbols(data)),
                         row.timestamp)
              g   == generate_signals(strategy, bars_so_far(data, i))
              n   == FInt(FDiv(FMul(P1.cash, Lit(95, 100)), row.close))
          IN  (g.signal = "BUY" /\ Shares(P1, strategy.symbol) = 0 /\ n > 0)
                 => portfolio' =
                       buy(P1, strategy.symbol, n, row.close,
                           row.timestamp).P
      ]_vars

\* the trades of symbol s in a trade log, in their order
RECURSIVE TradesOf(_, _)
TradesOf(trades, s) ==
    IF trades = <<>> THEN <<>>
    ELSE IF Head(trades).symbol = s
         THEN <<Head(trades)>> \o TradesOf(Tail(trades), s)
         ELSE TradesOf(Tail(trades), s)

\* C15: in the trade log of a run the trades of a symbol alternate BUY,
\* SELL, BUY, ... from a BUY on, every SELL sells the number of shares the
\* BUY before it bought, and after a bar that sold, the position and the
\* cost basis of the symbol are 0
C15_FullyInFullyOut ==
    /\ [](\A s \in Symbols :
            LET log == TradesOf(portfolio.trades, s)
            IN  \A k \in 1..Len(log) :
                   IF k % 2 = 1 THEN log[k].action = "BUY"
                   ELSE /\ log[k].action = "SELL"
                        /\ log[k].shares = log[k - 1].shares)
    /\ [][ ( /\ Looped
             /\ Len(portfolio'.trades) = Len(portfolio.trades) + 1
             /\ Last(portfolio'.trades).action = "SELL" )
           => /\ Shares(portfolio', Last(portfolio'.trades).symbol) = 0
              /\ Basis(portfolio', Last(portfolio'.trades).symbol) = Zero
         ]_vars

\* the date-filtered bars of the run_backtest call
Selected == SelectBars(args.data, args.start_date, args.end_date)

\* C16: a run on non-empty data with a price column processes every bar and
\* returns results, whatever signals the strategy emits (it never ends in
\* an exception, and when it has returned every bar has been processed); a
\* buy or sell the Portfolio rejects leaves the loop running and the trade
\* log as it was; a run aborts only for empty filtered data or a missing
\* price column
C16_OnlyStructuralAborts ==
    /\ [](pc \notin {"idle", "loop", "final", "done"} =>
             \/ Selected = <<>>
             \/ ~has_price_column(Selected[1]))
    /\ [][ Looped =>
             LET row == data[i + 1]
                 sym == strategy.symbol
                 P1  == update_portfolio_value(
                            portfolio,
                            _get_current_prices(row, _extract_symbols(data)),
                            row.timestamp)
                 n   == FInt(FDiv(FMul(P1.cash, Lit(95, 100)), row.close))
                 held == Shares(P1, sym)
             IN  /\ pc' \in {"loop", "final"}
                 /\ \/ portfolio' = P1
                    \/ /\ held = 0
                       /\ row.close # Zero
                       /\ can_buy(P1, sym, n, row.close)
                       /\ portfolio' = buy(P1, sym, n, row.close,
                                           row.timestamp).P
                    \/ /\ held > 0
                       /\ portfolio' = sell(P1, sym, held, row.close,
                                            row.timestamp).P
                 /\ ( /\ held = 0
                      /\ row.close # Zero
                      /\ ~can_buy(P1, sym, n, row.close) )
                       => portfolio'.trades = portfolio.trades
         ]_vars
    /\ [](pc = "done" =>
             /\ i = Len(data)
             /\ Len(bar_end) = Len(data)
             /\ Len(runs) = 1)

\* BacktestResults.portfolio: every BacktestResults holds the engine's own
\* Portfolio object (run_backtest, line 103), so it reads the current state
results_portfolio == portfolio

\* BacktestResults.get_trades_dataframe / get_portfolio_history_dataframe
get_trades_dataframe == results_portfolio.trades
get_portfolio_history_dataframe == results_portfolio.portfolio_history

\* C17: the trade log and the value history a returned BacktestResults
\* exposes stay what they were when it was returned, also after the engine
\* has begun or finished another run
C17_ResultsReadOnly ==
    \A k \in 1..Len(runs) :
       /\ get_trades_dataframe = runs[k].trades
       /\ get_portfolio_history_dataframe = runs[k].portfolio_history

C19_DegenerateMetrics ==
    (pc = "done" /\ (Len(data) = 1 \/ portfolio.trades = <<>>)) =>
        /\ metrics.win_rate = Zero
        /\ metrics.sharpe_ratio = "0.0"

RECURSIVE realized_profits(_)
\* the profit values of the SELL records of a trade log, in their order
realized_profits(trades) ==
    IF trades = <<>> THEN <<>>
    ELSE IF Head(trades).action = "SELL"
         THEN <<Head(trades).profit>> \o realized_profits(Tail(trades))
         ELSE realized_profits(Tail(trades))

\* C20: on every non-empty trade log of a Portfolio PerformanceMetrics
\* computes the trade statistics without raising, and average win, average
\* loss, largest win and largest loss are those of the profit values of the
\* SELL records
C20_TradeStatistics ==
    portfolio.trades # <<>> =>
       LET m == _calculate_trade_metrics(portfolio.trades)
           wins == pnl_of_sign(realized_profits(portfolio.trades), 1)
           losses == pnl_of_sign(realized_profits(portfolio.trades), 0 - 1)
       IN  /\ m.raised = "none"
           /\ m.avg_win = mean_or_zero(wins)
           /\ m.avg_loss = mean_or_zero(losses)
           /\ m.largest_win = largest_or_zero(wins)
           /\ m.largest_loss = smallest_or_zero(losses)

\* the constraint of its class that the arguments of a constructor call
\* violate
Violating(a) ==
    \/ a.cls = "MovingAverage" /\ a.short_window >= a.long_window
    \/ a.cls = "MACD" /\ a.fast_period >= a.slow_period
    \/ /\ a.cls = "RSI"
       /\ \/ a.oversold_threshold >= a.overbought_threshold
          \/ a.oversold_threshold \notin 0..100
          \/ a.overbought_threshold \notin 0..100

\* C21: a constructor call whose arguments violate the constraint of the
\* class raises ValueError and gives the caller no strategy object; every
\* other constructor call returns an object of the class whose
\* get_parameters are the arguments of the call.
C21_ConstructorValidates ==
    [][call' = "__init__" =>
          IF Violating(args')
          THEN pc' = "ValueError" /\ strategy' = [kind |-> "none"]
          ELSE /\ pc' = "returned"
               /\ strategy'.kind = args'.cls
               /\ DOMAIN get_parameters(strategy') = DOMAIN args' \ {"cls"}
               /\ \A k \in DOMAIN args' \ {"cls"} :
                     get_parameters(strategy')[k] = args'[k]]_vars

\* an RSIStrategy was constructed after a constructor call had raised
C21_Witness ==
    /\ call = "__init__"
    /\ pc = "returned"
    /\ ncalls = 2
    /\ strategy.kind = "RSI"

\* C22: MovingAverageStrategy.generate_signals returns a mapping whose only
\* key is the strategy's symbol and whose value is BUY, SELL or HOLD: HOLD
\* for fewer than long_window + 1 bars; otherwise BUY exactly when the short
\* average was at or below the long one at the previous bar and is above it
\* at the current bar, SELL exactly when it was at or above and is below.
C22_CrossoverSignals ==
    [][call' = "generate_signals" /\ strategy.kind = "MovingAverage" =>
          LET bars   == args'.data
              n      == Len(bars)
              short  == strategy.short_window
              long   == strategy.long_window
              signal == ret'[strategy.symbol]
          IN  /\ DOMAIN ret' = {strategy.symbol}
              /\ signal \in Signals
              /\ strategy' = strategy
              /\ n < long + 1 => signal = "HOLD"
              /\ n >= long + 1 =>
                    /\ signal = "BUY" <=>
                          /\ FLe(RollingMean(bars, short, n - 1),
                                 RollingMean(bars, long, n - 1))
                          /\ FGt(RollingMean(bars, short, n),
                                 RollingMean(bars, long, n))
                    /\ signal = "SELL" <=>
                          /\ FGe(RollingMean(bars, short, n - 1),
                                 RollingMean(bars, long, n - 1))
                          /\ FLt(RollingMean(bars, short, n),
                                 RollingMean(bars, long, n))]_vars

\* a MovingAverageStrategy answered BUY where the two averages were equal
\* at the previous bar
C22_Witness ==
    /\ call = "generate_signals"
    /\ strategy.kind = "MovingAverage"
    /\ ret[strategy.symbol] = "BUY"
    /\ LET n == Len(args.data)
       IN  RollingMean(args.data, strategy.short_window, n - 1)
               = RollingMean(args.data, strategy.long_window, n - 1)

\* a strictly increasing price series
StrictlyIncreasing(prices) ==
    \A k \in 1..(Len(prices) - 1) : FLt(prices[k], prices[k + 1])

\* C23: for every strictly increasing price series, also one shorter than
\* the RSI period, the last value of calculate_rsi is a number (not NaN)
\* greater than 50.
C23_RisingRsiAbove50 ==
    (call = "calculate_rsi" /\ Len(args.prices) > 0
        /\ StrictlyIncreasing(args.prices))
    => /\ Last(ret).kind = "number"
       /\ FGt(Last(ret).value, Fl(50))

\* C24: after a completed run the last snapshot of the value history shows
\* the final state: the portfolio's final cash and positions, and as
\* portfolio_value the final cash plus the final shares times the close of
\* the last bar, also when the last bar triggered a trade.
C24_LastSnapshotIsFinal ==
    pc = "done" =>
       LET snapshot == Last(portfolio.portfolio_history)
           close    == data[Len(data)].close
       IN  /\ snapshot.cash = portfolio.cash
           /\ snapshot.positions = portfolio.positions
           /\ snapshot.timestamp = data[Len(data)].timestamp
           /\ snapshot.portfolio_value =
                 FAdd(portfolio.cash,
                      FMul(Fl(Shares(portfolio, "AAPL")), close))
           /\ portfolio.portfolio_value = snapshot.portfolio_value
           /\ \A s \in DOMAIN portfolio.positions : s = "AAPL"

\* a run of several bars is complete whose last bar triggered a trade
C24_Witness ==
    /\ pc = "done"
    /\ Len(data) > 1
    /\ portfolio.trades # <<>>
    /\ Last(portfolio.trades).timestamp = data[Len(data)].timestamp

\* the number of SELL records among the first k trades
RECURSIVE CountSells(_, _)
CountSells(trades, k) ==
    IF k = 0 THEN 0
    ELSE CountSells(trades, k - 1)
            + (IF trades[k].action = "SELL" THEN 1 ELSE 0)

\* C25: an accepted sell raises winning_trades by 1 and leaves losing_trades
\* when its realized profit is > 0, and raises losing_trades by 1 and leaves
\* winning_trades otherwise (a profit of exactly 0 counts as a loss); an
\* accepted buy changes neither; in every reachable state
\* winning_trades + losing_trades is the number of SELL records logged.
C25_WinLossCounters ==
    /\ [][AcceptedSell =>
             LET profit == Last(portfolio'.trades).profit
             IN  IF FGt(profit, Zero)
                 THEN /\ portfolio'.winning_trades
                             = portfolio.winning_trades + 1
                      /\ portfolio'.losing_trades = portfolio.losing_trades
                 ELSE /\ portfolio'.losing_trades
                             = portfolio.losing_trades + 1
                      /\ portfolio'.winning_trades
                             = portfolio.winning_trades]_vars
    /\ [][AcceptedBuy =>
             /\ portfolio'.winning_trades = portfolio.winning_trades
             /\ portfolio'.losing_trades = portfolio.losing_trades]_vars
    /\ [](portfolio.winning_trades + portfolio.losing_trades
             = CountSells(portfolio.trades, Len(portfolio.trades)))

\* C26: for a value history of at least two positive values,
\* PerformanceMetrics._calculate_max_drawdown of the history's per-step
\* returns is the number BacktestResults._calculate_max_drawdown gives for
\* the values, also when the largest decline starts at the first value.
C26_DrawdownsAgree ==
    (pc = "analysed" /\ Len(portfolio_values(portfolio)) >= 2)
        => ret = metrics.max_drawdown

\* C27: a completed run of BuyAndHoldStrategy on bars at whose first bar one
\* share is affordable ends with exactly one trade, a BUY dated at the first
\* bar, and a position that is not zero.
C27_BuyAndHoldBuysOnce ==
    (/\ pc = "done"
     /\ strategy.kind = "BuyAndHold"
     /\ can_buy(reset(portfolio), strategy.symbol, 1, data[1].close))
    => /\ Len(portfolio.trades) = 1
       /\ portfolio.trades[1].action = "BUY"
       /\ portfolio.trades[1].timestamp = data[1].timestamp
       /\ Shares(portfolio, strategy.symbol) # 0

RECURSIVE LedgerCash(_, _)
\* the initial capital minus total_cost of the BUY records plus net_proceeds
\* of the SELL records among the first k trades, taken in the log's order
LedgerCash(P, k) ==
    IF k = 0 THEN P.initial_capital
    ELSE LET t == P.trades[k]
         IN  IF t.action = "BUY"
             THEN FSub(LedgerCash(P, k - 1), t.total_cost)
             ELSE FAdd(LedgerCash(P, k - 1), t.net_proceeds)

RECURSIVE LedgerCosts(_, _)
\* the sum of trading_cost over the first k trades
LedgerCosts(trades, k) ==
    IF k = 0 THEN Zero
    ELSE FAdd(LedgerCosts(trades, k - 1), trades[k].trading_cost)

RECURSIVE LedgerTaxes(_, _)
\* the sum of tax_paid over the SELL records among the first k trades
LedgerTaxes(trades, k) ==
    IF k = 0 THEN Zero
    ELSE IF trades[k].action = "SELL"
    THEN FAdd(LedgerTaxes(trades, k - 1), trades[k].tax_paid)
    ELSE LedgerTaxes(trades, k - 1)

\* C28: in every state reached by buy, sell and update_portfolio_value
\* calls, total_trades is the length of the trade log,
\* total_trading_costs_paid the sum of trading_cost over the log,
\* total_taxes_paid the sum of tax_paid over the logged sells, cash the
\* initial capital minus total_cost of the logged buys plus net_proceeds of
\* the logged sells, and each record's cash_after the cash right after that
\* trade (the sums taken in the order of the log).
C28_LedgerMatchesLog ==
    LET trades == portfolio.trades
        n      == Len(trades)
    IN  /\ portfolio.total_trades = n
        /\ portfolio.total_trading_costs_paid = LedgerCosts(trades, n)
        /\ portfolio.total_taxes_paid = LedgerTaxes(trades, n)
        /\ portfolio.cash = LedgerCash(portfolio, n)
        /\ \A k \in 1..n : trades[k].cash_after = LedgerCash(portfolio, k)

\* cash plus the held shares of s valued at the given price
ValueAt(P, s, price) == FAdd(P.cash, FMul(Fl(Shares(P, s)), price))

\* C29: valued at the trade's own price, cash + held shares * price right
\* after an accepted buy is the value right before it minus the trading
\* cost, and right after an accepted sell the value right before it minus
\* the trading cost and the tax.
C29_TradingCreatesNoValue ==
    /\ [][AcceptedBuy =>
             LET t == Last(portfolio'.trades)
             IN  ValueAt(portfolio', t.symbol, t.price)
                    = FSub(ValueAt(portfolio, t.symbol, t.price),
                           t.trading_cost)]_vars
    /\ [][AcceptedSell =>
             LET t == Last(portfolio'.trades)
             IN  ValueAt(portfolio', t.symbol, t.price)
                    = FSub(FSub(ValueAt(portfolio, t.symbol, t.price),
                                t.trading_cost),
                           t.tax_paid)]_vars

\* the constraints of the constructor hold for the attributes of S
Constrained(S) ==
    /\ S.kind = "MovingAverage" => S.short_window < S.long_window
    /\ S.kind = "MACD" => S.fast_period < S.slow_period
    /\ S.kind = "RSI" =>
          /\ S.oversold_threshold < S.overbought_threshold
          /\ S.oversold_threshold \in 0..100
          /\ S.overbought_threshold \in 0..100

\* C30: a set_parameters call that raises ValueError leaves the strategy's
\* parameters as they were before the call, so every strategy object that
\* exists satisfies the constraints of its constructor after any sequence
\* of set_parameters calls.
C30_FailedSetParametersChangesNothing ==
    /\ [][(call' = "set_parameters" /\ pc' = "ValueError")
             => get_parameters(strategy') = get_parameters(strategy)]_vars
    /\ [](strategy.kind # "none" => Constrained(strategy))

====
